---- MODULE Spec2Model ----
(***************************************************************************)
(* A model of the Cluedo knowledge base of src/main.py: the players'       *)
(* cards / not_cards sets, the KnowledgeBase recording operations and the  *)
(* deduce() fixed-point loop with its three rules.                         *)
(***************************************************************************)
EXTENDS Integers, Sequences, FiniteSets, TLC

\* ---------------------------------------------------------------------
\* Bounds of the model
\* ---------------------------------------------------------------------
NumPlayers == 2
NumSuspects == 2
NumWeapons == 2
NumLocations == 1
MaxEvents == 3
MaxFairEvents == 2

\* ---------------------------------------------------------------------
\* Configuration (CluedoConfiguration)
\* ---------------------------------------------------------------------
suspects == {<<"suspect", i>> : i \in 1..NumSuspects}

weapons == {<<"weapon", i>> : i \in 1..NumWeapons}

locations == {<<"location", i>> : i \in 1..NumLocations}

config_cards == suspects \cup locations \cup weapons

CardTypes == {"suspect", "weapon", "location"}

Players == 1..NumPlayers

\* Suggestion.cards: one suspect, one weapon, one location
Suggestions == {{s, w, l} : s \in suspects, w \in weapons, l \in locations}

get_card_type(card) ==
    IF card \in suspects THEN "suspect"
    ELSE IF card \in weapons THEN "weapon"
    ELSE "location"

\* ---------------------------------------------------------------------
\* State
\* ---------------------------------------------------------------------
VARIABLES
    cards,                   \* Player.cards, per player
    not_cards,               \* Player.not_cards, per player
    unknown_cards,           \* KnowledgeBase.unknown_cards
    constraints,             \* KnowledgeBase.constraints (a list)
    solution_possibilities,  \* KnowledgeBase.solution_possibilities
    pc,                      \* "idle", or "deduce" inside the loop of deduce()
    changed,                 \* local of deduce()
    overal_changed,          \* local of deduce()
    last,                    \* the last call made on the knowledge base
    pre,                     \* the knowledge base as it was when that call began
    nevents,                 \* number of recording calls made so far
    console                  \* the contradiction lines the last call printed

kbvars == <<cards, not_cards, unknown_cards, constraints, solution_possibilities>>

vars == <<cards, not_cards, unknown_cards, constraints, solution_possibilities,
          pc, changed, overal_changed, last, pre, nevents, console>>

\* The knowledge base as one value
KB ==
    [cards |-> cards,
     not_cards |-> not_cards,
     unknown_cards |-> unknown_cards,
     constraints |-> constraints,
     solution_possibilities |-> solution_possibilities]

\* KnowledgeBase.__init__ with freshly constructed players
InitKB ==
    [cards |-> [p \in Players |-> {}],
     not_cards |-> [p \in Players |-> {}],
     unknown_cards |-> config_cards,
     constraints |-> <<>>,
     solution_possibilities |->
         [t \in CardTypes |->
             IF t = "suspect" THEN suspects
             ELSE IF t = "weapon" THEN weapons
             ELSE locations]]

NoCard == <<"none", 0>>

Call(op, player, card, suggestion) ==
    [op |-> op, player |-> player, card |-> card, suggestion |-> suggestion,
     ret |-> "-", again |-> FALSE]

\* F applied to the value of v, with v evaluated once
Then(v, F(_)) == CHOOSE y \in {F(x) : x \in {v}} : TRUE

\* ---------------------------------------------------------------------
\* Player
\* ---------------------------------------------------------------------
might_have_card(k, p, card) ==
    card \notin k.cards[p] /\ card \notin k.not_cards[p]

add_card(k, p, card) ==
    [k EXCEPT !.cards[p] = @ \cup {card}]

mark_not_card(k, p, card) ==
    [k EXCEPT !.not_cards[p] = @ \cup {card}]

\* ---------------------------------------------------------------------
\* Constraint
\* ---------------------------------------------------------------------
Constraint(p, possible_cards) ==
    [player |-> p, possible_cards |-> possible_cards]

\* the line console.print writes for a constraint found impossible
Contradiction(constraint) ==
    [player |-> constraint.player, possible_cards |-> constraint.possible_cards]

narrow(k, constraint) ==
    Constraint(constraint.player,
               {c \in constraint.possible_cards :
                    might_have_card(k, constraint.player, c)})

resolved(constraint) == Cardinality(constraint.possible_cards) = 1

impossible(constraint) == Cardinality(constraint.possible_cards) = 0

\* ---------------------------------------------------------------------
\* KnowledgeBase: recording operations
\* ---------------------------------------------------------------------
\* for i, other in enumerate(self.players): if other != player: mark
RECURSIVE mark_others(_, _, _, _)
mark_others(k, p, card, i) ==
    IF i > NumPlayers THEN k
    ELSE mark_others(IF i # p THEN mark_not_card(k, i, card) ELSE k, p, card, i + 1)

\* record_has_card as it would be if learning that a player holds a card
\* withdrew the card from that player's not_cards
record_has_card_unmarking(k, p, card) ==
    IF card \in k.cards[p] THEN k
    ELSE
        LET k1 == add_card(k, p, card)
            k2 == [k1 EXCEPT !.unknown_cards = @ \ {card},
                             !.not_cards[p] = @ \ {card}]
            k3 == mark_others(k2, p, card, 1)
        IN [k3 EXCEPT !.solution_possibilities[get_card_type(card)] = @ \ {card}]

\* record_has_card as it would be without the discard from the candidate set
record_has_card_keeping_candidate(k, p, card) ==
    IF card \in k.cards[p] THEN k
    ELSE
        LET k1 == add_card(k, p, card)
            k2 == [k1 EXCEPT !.unknown_cards = @ \ {card}]
        IN  mark_others(k2, p, card, 1)

\* record_has_card as it would be without the early return
record_has_card_no_return(k, p, card) ==
    LET k1 == add_card(k, p, card)
        k2 == [k1 EXCEPT !.unknown_cards = @ \ {card}]
        k3 == mark_others(k2, p, card, 1)
    IN [k3 EXCEPT !.solution_possibilities[get_card_type(card)] = @ \ {card}]

record_has_card(k, p, card) ==
    IF card \in k.cards[p] THEN k
    ELSE
        LET k1 == add_card(k, p, card)
            k2 == [k1 EXCEPT !.unknown_cards = @ \ {card}]
            k3 == mark_others(k2, p, card, 1)
        IN [k3 EXCEPT !.solution_possibilities[get_card_type(card)] = @ \ {card}]

record_does_not_have(k, p, card) ==
    mark_not_card(k, p, card)

\* record_showed_one_of as it would be if it stored the cards as given
record_showed_one_of_unnarrowed(k, p, possible_cards) ==
    LET unknown_subset == {c \in possible_cards : might_have_card(k, p, c)}
    IN  IF Cardinality(unknown_subset) = 0 THEN k
        ELSE IF Cardinality(unknown_subset) = 1
             THEN record_has_card(k, p, CHOOSE c \in unknown_subset : TRUE)
        ELSE [k EXCEPT !.constraints = Append(@, Constraint(p, possible_cards))]

record_showed_one_of(k, p, possible_cards) ==
    LET unknown_subset == {c \in possible_cards : might_have_card(k, p, c)}
    IN  IF Cardinality(unknown_subset) = 0 THEN k
        ELSE IF Cardinality(unknown_subset) = 1
             THEN record_has_card(k, p, CHOOSE c \in unknown_subset : TRUE)
        ELSE [k EXCEPT !.constraints = Append(@, Constraint(p, unknown_subset))]

\* The loop over suggestion.cards. The cards are of three different types,
\* so the order in which the set is visited does not matter.
RECURSIVE no_one_showed_loop(_, _, _)
no_one_showed_loop(k, todo, your_player) ==
    IF todo = {} THEN k
    ELSE
        LET card == CHOOSE c \in todo : TRUE
        IN  no_one_showed_loop(
                IF card \notin k.cards[your_player]
                THEN [k EXCEPT !.solution_possibilities[get_card_type(card)] = {card},
                               !.unknown_cards = @ \ {card}]
                ELSE k,
                todo \ {card}, your_player)

\* record_no_one_showed as it would be if it narrowed the candidate set to
\* the suggested card instead of assigning it
RECURSIVE record_no_one_showed_narrowing(_, _, _)
record_no_one_showed_narrowing(k, todo, your_player) ==
    IF todo = {} THEN k
    ELSE
        LET card == CHOOSE c \in todo : TRUE
        IN  record_no_one_showed_narrowing(
                IF card \notin k.cards[your_player]
                THEN [k EXCEPT !.solution_possibilities[get_card_type(card)] =
                                   @ \cap {card},
                               !.unknown_cards = @ \ {card}]
                ELSE k,
                todo \ {card}, your_player)

record_no_one_showed(k, suggestion, your_player) ==
    no_one_showed_loop(k, suggestion, your_player)

\* KnowledgeBase.solution: the card of each slot, NoCard for None
solution(k) ==
    [t \in CardTypes |->
        IF Cardinality(k.solution_possibilities[t]) = 1
        THEN CHOOSE c \in k.solution_possibilities[t] : TRUE
        ELSE NoCard]

is_solved(k) == \A t \in CardTypes : solution(k)[t] # NoCard

\* ---------------------------------------------------------------------
\* KnowledgeBase: the rules of deduce()
\* ---------------------------------------------------------------------
\* list(self.unknown_cards): a set of strings is iterated in an order that
\* depends on the strings' hashes, so any order of the set can come out.
RECURSIVE Orders(_)
Orders(S) ==
    IF S = {} THEN {<<>>}
    ELSE UNION {{<<x>> \o s : s \in Orders(S \ {x})} : x \in S}

\* the body of the loop of _deduce_unique_owner, for one listed card
unique_owner_body(k, card, ch) ==
    LET possible_owners == {p \in Players : might_have_card(k, p, card)}
        card_type == get_card_type(card)
    IN  IF Cardinality(possible_owners) = 1
        THEN [kb |-> record_has_card(k, CHOOSE p \in possible_owners : TRUE, card),
              changed |-> TRUE]
        ELSE IF /\ Cardinality(possible_owners) = 0
                /\ Cardinality(k.solution_possibilities[card_type]) > 1
        THEN [kb |-> [k EXCEPT !.solution_possibilities[card_type] = {card},
                               !.unknown_cards = @ \ {card}],
              changed |-> TRUE]
        ELSE [kb |-> k, changed |-> ch]

\* for card in list(self.unknown_cards)
RECURSIVE unique_owner_loop(_, _, _)
unique_owner_loop(k, order, ch) ==
    IF order = <<>> THEN [kb |-> k, changed |-> ch]
    ELSE Then(unique_owner_body(k, Head(order), ch),
              LAMBDA r : unique_owner_loop(r.kb, Tail(order), r.changed))

deduce_unique_owner(k, order) ==
    unique_owner_loop(k, order, FALSE)

\* dict order of solution_possibilities: suspect, weapon, location
CardTypeOrder == <<"suspect", "weapon", "location">>

\* the inner loop body as it would be if it left the player unmarked
solution_cards_body_unmarked(k, solution_card, player, ch) ==
    [kb |-> k, changed |-> ch]

\* the inner loop body as it would be if it set changed for every player
solution_cards_body_always_changed(k, solution_card, player, ch) ==
    IF might_have_card(k, player, solution_card)
    THEN [kb |-> mark_not_card(k, player, solution_card), changed |-> TRUE]
    ELSE [kb |-> k, changed |-> TRUE]

\* the body of the inner loop of _deduce_solution_cards, for one player
solution_cards_body(k, solution_card, player, ch) ==
    IF might_have_card(k, player, solution_card)
    THEN [kb |-> mark_not_card(k, player, solution_card), changed |-> TRUE]
    ELSE [kb |-> k, changed |-> ch]

\* the loops of _deduce_solution_cards from slot i and player j on
RECURSIVE solution_cards_loop(_, _, _, _)
solution_cards_loop(k, i, j, ch) ==
    IF i > Len(CardTypeOrder) THEN [kb |-> k, changed |-> ch]
    ELSE
        LET possible == k.solution_possibilities[CardTypeOrder[i]]
        IN  IF Cardinality(possible) # 1 \/ j > NumPlayers
            THEN solution_cards_loop(k, i + 1, 1, ch)
            ELSE Then(solution_cards_body(k, CHOOSE c \in possible : TRUE, j, ch),
                      LAMBDA r : solution_cards_loop(r.kb, i, j + 1, r.changed))

deduce_solution_cards(k) ==
    solution_cards_loop(k, 1, 1, FALSE)

\* _propagate_constraints as it would be if it dropped an impossible
\* constraint without printing anything
propagate_body_silent(k, constraint, new_constraints, ch) ==
    LET narrowed == narrow(k, constraint)
    IN  IF impossible(narrowed)
        THEN [kb |-> k, new_constraints |-> new_constraints, changed |-> ch,
              printed |-> <<>>]
        ELSE IF resolved(narrowed)
        THEN [kb |-> record_has_card(k, constraint.player,
                                     CHOOSE c \in narrowed.possible_cards : TRUE),
              new_constraints |-> new_constraints,
              changed |-> TRUE,
              printed |-> <<>>]
        ELSE [kb |-> k,
              new_constraints |-> Append(new_constraints, narrowed),
              changed |-> ch,
              printed |-> <<>>]

\* _propagate_constraints as it would be if the resolved branch did not set
\* changed
propagate_body_unflagged(k, constraint, new_constraints, ch) ==
    LET narrowed == narrow(k, constraint)
    IN  IF impossible(narrowed)
        THEN [kb |-> k, new_constraints |-> new_constraints, changed |-> ch,
              printed |-> <<Contradiction(constraint)>>]
        ELSE IF resolved(narrowed)
        THEN [kb |-> record_has_card(k, constraint.player,
                                     CHOOSE c \in narrowed.possible_cards : TRUE),
              new_constraints |-> new_constraints,
              changed |-> ch,
              printed |-> <<>>]
        ELSE [kb |-> k,
              new_constraints |-> Append(new_constraints, narrowed),
              changed |-> ch,
              printed |-> <<>>]

\* _propagate_constraints as it would be if it kept the stored constraint
\* instead of the narrowed one
propagate_body_unnarrowed(k, constraint, new_constraints, ch) ==
    LET narrowed == narrow(k, constraint)
    IN  IF impossible(narrowed)
        THEN [kb |-> k, new_constraints |-> new_constraints, changed |-> ch,
              printed |-> <<Contradiction(constraint)>>]
        ELSE IF resolved(narrowed)
        THEN [kb |-> record_has_card(k, constraint.player,
                                     CHOOSE c \in narrowed.possible_cards : TRUE),
              new_constraints |-> new_constraints,
              changed |-> TRUE,
              printed |-> <<>>]
        ELSE [kb |-> k,
              new_constraints |-> Append(new_constraints, constraint),
              changed |-> ch,
              printed |-> <<>>]

\* the body of the for loop of _propagate_constraints; printed is the
\* "Contradiction: ..." line, which names the player and the possible_cards
\* of the stored constraint
propagate_body(k, constraint, new_constraints, ch) ==
    LET narrowed == narrow(k, constraint)
    IN  IF impossible(narrowed)
        THEN [kb |-> k, new_constraints |-> new_constraints, changed |-> ch,
              printed |-> <<Contradiction(constraint)>>]
        ELSE IF resolved(narrowed)
        THEN [kb |-> record_has_card(k, constraint.player,
                                     CHOOSE c \in narrowed.possible_cards : TRUE),
              new_constraints |-> new_constraints,
              changed |-> TRUE,
              printed |-> <<>>]
        ELSE [kb |-> k,
              new_constraints |-> Append(new_constraints, narrowed),
              changed |-> ch,
              printed |-> <<>>]

\* for constraint in self.constraints, from the i-th on
RECURSIVE propagate_loop(_, _, _, _, _)
propagate_loop(k, i, new_constraints, ch, out) ==
    IF i > Len(k.constraints)
    THEN [kb |-> [k EXCEPT !.constraints = new_constraints], changed |-> ch,
          printed |-> out]
    ELSE Then(propagate_body(k, k.constraints[i], new_constraints, ch),
              LAMBDA r : propagate_loop(r.kb, i + 1, r.new_constraints,
                                        r.changed, out \o r.printed))

propagate_constraints(k) ==
    propagate_loop(k, 1, <<>>, FALSE, <<>>)

\* one iteration of the while loop of deduce()
deduce_pass(k, order) ==
    Then(deduce_unique_owner(k, order), LAMBDA r1 :
    Then(deduce_solution_cards(r1.kb), LAMBDA r2 :
    Then(propagate_constraints(r2.kb), LAMBDA r3 :
        [kb |-> r3.kb, changed |-> r1.changed \/ r2.changed \/ r3.changed,
         printed |-> r3.printed])))

\* what one iteration can make of k, over the orders of unknown_cards
deduce_pass_outcomes(k) ==
    {deduce_pass(k, order) : order \in Orders(k.unknown_cards)}

\* ---------------------------------------------------------------------
\* Actions
\* ---------------------------------------------------------------------
SetKB(k) ==
    /\ cards' = k.cards
    /\ not_cards' = k.not_cards
    /\ unknown_cards' = k.unknown_cards
    /\ constraints' = k.constraints
    /\ solution_possibilities' = k.solution_possibilities

\* a recording call: made between two calls of deduce(), never inside one
Record(call, k) ==
    /\ pc = "idle"
    /\ nevents < MaxEvents
    /\ SetKB(k)
    /\ last' = call
    /\ pre' = KB
    /\ nevents' = nevents + 1
    /\ console' = <<>>
    /\ UNCHANGED <<pc, changed, overal_changed>>

RecordHasCard(p, card) ==
    Record(Call("record_has_card", p, card, {}), record_has_card(KB, p, card))

RecordDoesNotHave(p, card) ==
    Record(Call("record_does_not_have", p, card, {}),
           record_does_not_have(KB, p, card))

RecordShowedOneOf(p, s) ==
    Record(Call("record_showed_one_of", p, NoCard, s),
           record_showed_one_of(KB, p, s))

RecordNoOneShowed(s, o) ==
    Record(Call("record_no_one_showed", o, NoCard, s),
           record_no_one_showed(KB, s, o))

\* deduce(): entry, up to the first test of the while loop
DeduceStart ==
    /\ pc = "idle"
    /\ pc' = "deduce"
    /\ overal_changed' = FALSE
    /\ changed' = TRUE
    /\ last' = [Call("deduce", 0, NoCard, {}) EXCEPT !.again = (last.op = "deduce")]
    /\ pre' = KB
    /\ console' = <<>>
    /\ UNCHANGED <<kbvars, nevents>>

\* deduce(): one iteration of the while loop
DeducePass ==
    /\ pc = "deduce"
    /\ changed
    /\ \E r \in deduce_pass_outcomes(KB) :
          /\ SetKB(r.kb)
          /\ changed' = r.changed
          /\ overal_changed' = (overal_changed \/ r.changed)
          /\ console' = console \o r.printed
    /\ UNCHANGED <<pc, last, pre, nevents>>

\* deduce(): the loop test fails, return overal_changed
DeduceReturn ==
    /\ pc = "deduce"
    /\ ~changed
    /\ pc' = "idle"
    /\ last' = [last EXCEPT !.ret = IF overal_changed THEN "True" ELSE "False"]
    /\ UNCHANGED <<kbvars, changed, overal_changed, pre, nevents, console>>

Init ==
    /\ cards = InitKB.cards
    /\ not_cards = InitKB.not_cards
    /\ unknown_cards = InitKB.unknown_cards
    /\ constraints = InitKB.constraints
    /\ solution_possibilities = InitKB.solution_possibilities
    /\ pc = "idle"
    /\ changed = FALSE
    /\ overal_changed = FALSE
    /\ last = Call("init", 0, NoCard, {})
    /\ pre = InitKB
    /\ nevents = 0
    /\ console = <<>>

Next ==
    \/ \E p \in Players, card \in config_cards : RecordHasCard(p, card)
    \/ \E p \in Players, card \in config_cards : RecordDoesNotHave(p, card)
    \/ \E p \in Players, s \in Suggestions : RecordShowedOneOf(p, s)
    \/ \E s \in Suggestions, o \in Players : RecordNoOneShowed(s, o)
    \/ DeduceStart
    \/ DeducePass
    \/ DeduceReturn

Spec == Init /\ [][Next]_vars

\* The same calls with a shorter event feed, for the termination of
\* deduce(). A call of deduce() runs to completion: the engine is
\* single-threaded and synchronous, nothing pre-empts the loop.
FairNext == Next /\ nevents' <= MaxFairEvents

FairSpec == Init /\ [][FairNext]_vars /\ WF_vars(DeducePass) /\ WF_vars(DeduceReturn)

\* every outcome of a whole call of deduce() on k, over the orders in which
\* the passes can list unknown_cards
RECURSIVE deduce(_)
deduce(k) ==
    UNION {IF r.changed THEN deduce(r.kb) ELSE {r.kb} :
              r \in deduce_pass_outcomes(k)}

\* ---------------------------------------------------------------------
\* A true deal, and the event feed that is true of it
\* ---------------------------------------------------------------------
\* the envelope holds the first card of each category
Envelope == {<<t, 1>> : t \in CardTypes}

TypeOffset(t) ==
    IF t = "suspect" THEN 0 ELSE IF t = "weapon" THEN 1 ELSE 2

\* the other cards are dealt round the table
TrueOwner(card) == ((card[2] + TypeOffset(card[1])) % NumPlayers) + 1

TrulyHolds(p, card) == card \notin Envelope /\ TrueOwner(card) = p

\* the driver calls deduce() after the events of a turn (_take_turn)
DeducedSinceLastEvent == last.op \in {"init", "deduce"}

ConsistentHasCard ==
    \E p \in Players, card \in config_cards :
        /\ DeducedSinceLastEvent
        /\ TrulyHolds(p, card)
        /\ RecordHasCard(p, card)

ConsistentDoesNotHave ==
    \E p \in Players, card \in config_cards :
        /\ DeducedSinceLastEvent
        /\ ~TrulyHolds(p, card)
        /\ RecordDoesNotHave(p, card)

ConsistentShowedOneOf ==
    \E p \in Players, s \in Suggestions :
        /\ DeducedSinceLastEvent
        /\ \E card \in s : TrulyHolds(p, card)
        /\ RecordShowedOneOf(p, s)

\* the observer is the local player, whose whole hand _setup has recorded
HandRecorded(o) == \A card \in config_cards : TrulyHolds(o, card) => card \in cards[o]

ConsistentNoOneShowed ==
    \E s \in Suggestions, o \in Players :
        /\ DeducedSinceLastEvent
        /\ HandRecorded(o)
        /\ \A q \in Players \ {o} : \A card \in s : ~TrulyHolds(q, card)
        /\ RecordNoOneShowed(s, o)

ConsistentNext ==
    \/ ConsistentHasCard
    \/ ConsistentDoesNotHave
    \/ ConsistentShowedOneOf
    \/ ConsistentNoOneShowed
    \/ DeduceStart
    \/ DeducePass
    \/ DeduceReturn

SpecConsistent == Init /\ [][ConsistentNext]_vars

\* ---------------------------------------------------------------------
\* Properties
\* ---------------------------------------------------------------------
Idle == pc = "idle"

\* C1: for every player, the held cards and the excluded cards are disjoint
\* in every state the calls can reach.
C1_HoldsExcludedDisjoint ==
    Idle => \A p \in Players : cards[p] \cap not_cards[p] = {}

\* C2: under events that are all true of the deal, with deduce() after each
\* event, the envelope card of each category is in that category's
\* solution candidate set.
C2_SolutionStaysCandidate ==
    Idle => \A card \in Envelope :
                card \in solution_possibilities[get_card_type(card)]

\* C3: a solution candidate set only shrinks: no step puts a card back.
C3_CandidatesOnlyShrink ==
    [][\A t \in CardTypes :
          solution_possibilities'[t] \subseteq solution_possibilities[t]]_vars

\* C4: across any step each player's held set and excluded set only grow.
C4_HoldsExcludedOnlyGrow ==
    [][\A p \in Players :
          /\ cards[p] \subseteq cards'[p]
          /\ not_cards[p] \subseteq not_cards'[p]]_vars

C4_Witness ==
    /\ Idle
    /\ last.op = "deduce"
    /\ \E p \in Players : cards[p] # pre.cards[p]
    /\ \E p \in Players : not_cards[p] # pre.not_cards[p]
    /\ \E p \in Players : cards[p] \cap not_cards[p] # {}

\* C5: a call of deduce() has one outcome, whatever the order in which it
\* lists the unknown cards, so that a replayed event sequence ends in the
\* same state.
C5_DeduceOrderIndependent ==
    Idle => Cardinality(deduce(KB)) = 1

\* C6: deduce() terminates from every reachable state, inconsistent ones
\* included: a call that entered the loop returns.
C6_DeduceTerminates ==
    (pc = "deduce") ~> (pc = "idle")

C6_Witness ==
    /\ Idle
    /\ last.op = "deduce"
    /\ last.ret = "True"
    /\ \E p \in Players : pre.cards[p] \cap pre.not_cards[p] # {}

\* deduce() also returns from a state with an empty candidate set, and from
\* one with a stored constraint none of whose cards its player can hold
C6_WitnessEmptySet ==
    /\ Idle
    /\ last.op = "deduce"
    /\ last.ret # "-"
    /\ \E t \in CardTypes : pre.solution_possibilities[t] = {}

C6_WitnessContradiction ==
    /\ Idle
    /\ last.op = "deduce"
    /\ last.ret # "-"
    /\ \E i \in 1..Len(pre.constraints) : impossible(narrow(KB, pre.constraints[i]))

\* C7: record_has_card(P, C) for a card P did not hold puts C in P's held
\* set, takes it out of unknown_cards and of its category's candidate set,
\* excludes it for every other player, and changes nothing else.
C7_RecordHasCardEffect ==
    (last.op = "record_has_card" /\ last.card \notin pre.cards[last.player]) =>
        LET p == last.player
            c == last.card
            t == get_card_type(c)
        IN  /\ c \in cards[p]
            /\ c \notin unknown_cards
            /\ \A q \in Players \ {p} : c \in not_cards[q]
            /\ c \notin solution_possibilities[t]
            /\ constraints = pre.constraints
            /\ \A u \in CardTypes \ {t} :
                  solution_possibilities[u] = pre.solution_possibilities[u]
            /\ solution_possibilities[t] \ {c} = pre.solution_possibilities[t] \ {c}
            /\ unknown_cards \ {c} = pre.unknown_cards \ {c}
            /\ \A q \in Players :
                  /\ cards[q] \ {c} = pre.cards[q] \ {c}
                  /\ not_cards[q] \ {c} = pre.not_cards[q] \ {c}
                  /\ (c \in pre.cards[q] => c \in cards[q])
                  /\ (c \in pre.not_cards[q] => c \in not_cards[q])

C7_Witness ==
    /\ last.op = "record_has_card"
    /\ last.card \notin pre.cards[last.player]
    /\ last.card \in pre.unknown_cards
    /\ last.card \in pre.solution_possibilities[get_card_type(last.card)]
    /\ pre.constraints # <<>>

\* C8: record_has_card is idempotent: a second call right after the first
\* leaves the state of the first, and a call for a card the player already
\* holds changes nothing.
C8_RecordHasCardIdempotent ==
    last.op = "record_has_card" =>
        /\ record_has_card(KB, last.player, last.card) = KB
        /\ (last.card \in pre.cards[last.player] => KB = pre)

C8_Witness ==
    /\ last.op = "record_has_card"
    /\ last.card \in pre.cards[last.player]
    /\ last.card \in pre.solution_possibilities[get_card_type(last.card)]

\* C9: record_does_not_have(P, C) for a card P holds changes nothing.
C9_ExcludeHeldIsNoOp ==
    (last.op = "record_does_not_have" /\ last.card \in pre.cards[last.player]) =>
        KB = pre

\* C10: record_showed_one_of(P, S) acts by the number of cards of S that P
\* could still hold: none, no change; one, the effect of record_has_card
\* for it and no constraint stored; two or more, one constraint (P, the
\* narrowed set) appended and nothing else changed.
C10_ShowedOneOfCases ==
    last.op = "record_showed_one_of" =>
        LET p == last.player
            narrowed == {c \in last.suggestion : might_have_card(pre, p, c)}
        IN  /\ Cardinality(narrowed) = 0 => KB = pre
            /\ Cardinality(narrowed) = 1 =>
                  /\ \E c \in narrowed : KB = record_has_card(pre, p, c)
                  /\ constraints = pre.constraints
            /\ Cardinality(narrowed) >= 2 =>
                  /\ constraints =
                         Append(pre.constraints,
                                [player |-> p, possible_cards |-> narrowed])
                  /\ cards = pre.cards
                  /\ not_cards = pre.not_cards
                  /\ unknown_cards = pre.unknown_cards
                  /\ solution_possibilities = pre.solution_possibilities

C10_Witness ==
    /\ last.op = "record_showed_one_of"
    /\ Cardinality({c \in last.suggestion :
                       might_have_card(pre, last.player, c)}) = 2
    /\ last.suggestion \cap pre.cards[last.player] # {}

\* the other two cases of C10 are reached as well
C10_WitnessNone ==
    /\ last.op = "record_showed_one_of"
    /\ {c \in last.suggestion : might_have_card(pre, last.player, c)} = {}

C10_WitnessOne ==
    /\ last.op = "record_showed_one_of"
    /\ Cardinality({c \in last.suggestion :
                       might_have_card(pre, last.player, c)}) = 1
    /\ KB # pre

\* C11: record_no_one_showed(S, O) makes every card of S that O does not
\* hold the only candidate of its category and takes it out of
\* unknown_cards, and leaves the category of a card O holds as it was; when
\* O holds none of the three, the game is solved right after the call and
\* after the deduce() that follows, with the suggested cards as solution.
C11_NoOneShowedEffect ==
    last.op = "record_no_one_showed" =>
        LET o == last.player
            s == last.suggestion
        IN  /\ \A c \in s :
                  IF c \notin pre.cards[o]
                  THEN /\ solution_possibilities[get_card_type(c)] = {c}
                       /\ c \notin unknown_cards
                  ELSE solution_possibilities[get_card_type(c)] =
                           pre.solution_possibilities[get_card_type(c)]
            /\ s \cap pre.cards[o] = {} =>
                  /\ is_solved(KB)
                  /\ \A c \in s : solution(KB)[get_card_type(c)] = c
                  /\ \A k \in deduce(KB) :
                        /\ is_solved(k)
                        /\ \A c \in s : solution(k)[get_card_type(c)] = c

C11_Witness ==
    /\ last.op = "record_no_one_showed"
    /\ last.suggestion \cap pre.cards[last.player] = {}
    /\ ~is_solved(pre)
    /\ pre.constraints # <<>>
    /\ \E k \in deduce(KB) : k # KB

\* C12: deduce() returns true if and only if the call changed the Knowledge
\* Base (a held or excluded set, unknown_cards, a solution candidate set or
\* the live constraint list); it returns false exactly when the state after
\* the call equals the state before it.
C12_DeduceReturnsChanged ==
    (Idle /\ last.op = "deduce") => (last.ret = "True" <=> KB # pre)

\* C13: when a pass of deduce() meets a stored constraint (P, S) that P can
\* hold no card of, it prints a contradiction line for that constraint,
\* takes the constraint off the live list and gives P no card of S; the
\* call then returns a value. A constraint that no card can satisfy is
\* never left on the list when deduce() returns.
C13_ContradictionReported ==
    /\ [][DeducePass =>
            LET met == {i \in 1..Len(constraints) :
                           impossible(narrow(KB, constraints[i]))}
                new == SubSeq(console', Len(console) + 1, Len(console'))
            IN  /\ \A i \in met :
                      /\ \E n \in 1..Len(new) :
                            new[n] = Contradiction(constraints[i])
                      /\ cards'[constraints[i].player]
                             \cap constraints[i].possible_cards
                         = cards[constraints[i].player]
                             \cap constraints[i].possible_cards
                /\ Len(constraints') <= Len(constraints) - Len(new)
                /\ Len(new) >= Cardinality(met)
                /\ pc' = "deduce"]_vars
    /\ [](Idle /\ last.op = "deduce" =>
            /\ last.ret \in {"True", "False"}
            /\ \A i \in 1..Len(constraints) :
                  ~impossible(narrow(KB, constraints[i])))

C13_Witness ==
    /\ Idle
    /\ last.op = "deduce"
    /\ console # <<>>
    /\ \E i \in 1..Len(pre.constraints) :
          /\ impossible(narrow(pre, pre.constraints[i]))
          /\ Contradiction(pre.constraints[i]) = console[1]
          /\ pre.cards[pre.constraints[i].player]
                 \cap pre.constraints[i].possible_cards = {}
    /\ Len(constraints) < Len(pre.constraints)

\* C14: when player P already holds a card of S, record_showed_one_of(P, S)
\* records no constraint: the live constraint list stays as it was, even
\* when two or more other cards of S are still possible for P.
C14_HeldCardExplainsReveal ==
    (last.op = "record_showed_one_of"
        /\ last.suggestion \cap pre.cards[last.player] # {})
    => constraints = pre.constraints

\* C15: in every reachable state, no card in some player's held set is a
\* member of a solution candidate set.
C15_HeldNotCandidate ==
    \A p \in Players : \A t \in CardTypes :
        cards[p] \cap solution_possibilities[t] = {}

\* C16: in every reachable state, each solution candidate set has at least
\* one member.
C16_CandidatesNonEmpty ==
    \A t \in CardTypes : solution_possibilities[t] # {}

\* C17: a card is in unknown_cards exactly when no player holds it and it
\* is not the confirmed solution of its category (the sole member of a
\* singleton candidate set). Stated for the states the claim singles out,
\* those right after deduce() returns: no confirmed solution card and no
\* held card is then in unknown_cards, and every other card is.
C17_UnknownCardsExact ==
    (Idle /\ last.op = "deduce") =>
        \A card \in config_cards :
            card \in unknown_cards
            <=> /\ \A p \in Players : card \notin cards[p]
                /\ solution(KB)[get_card_type(card)] # card

\* C18: every constraint on the live list has at least two candidate cards
\* at all times, and right after deduce() returns every candidate of every
\* live constraint is a card its player might still have (neither held nor
\* excluded): a constraint narrowed to one candidate has been turned into
\* record_has_card for its player and is off the list.
C18_LiveConstraintsOpen ==
    /\ \A i \in 1..Len(constraints) :
          Cardinality(constraints[i].possible_cards) >= 2
    /\ (Idle /\ last.op = "deduce") =>
          \A i \in 1..Len(constraints) :
              \A card \in constraints[i].possible_cards :
                  might_have_card(KB, constraints[i].player, card)

C18_Witness ==
    /\ Idle
    /\ last.op = "deduce"
    /\ Len(constraints) >= 1
    /\ \E i \in 1..Len(pre.constraints) :
          /\ constraints[1].player = pre.constraints[i].player
          /\ constraints[1].possible_cards # pre.constraints[i].possible_cards
          /\ constraints[1].possible_cards \subseteq pre.constraints[i].possible_cards

C18_WitnessPromoted ==
    /\ Idle
    /\ last.op = "deduce"
    /\ constraints = <<>>
    /\ \E i \in 1..Len(pre.constraints) :
          /\ resolved(narrow(pre, pre.constraints[i]))
          /\ narrow(pre, pre.constraints[i]).possible_cards
                \subseteq cards[pre.constraints[i].player]

\* C19: right after deduce() returns, for every category whose candidate
\* set is a singleton {c}, no player might still have c: every player has c
\* in the excluded set or in the held set.
C19_SolutionCardExcluded ==
    (Idle /\ last.op = "deduce") =>
        \A t \in CardTypes :
            Cardinality(solution_possibilities[t]) = 1 =>
                \A p \in Players :
                    /\ ~might_have_card(KB, p, solution(KB)[t])
                    /\ \/ solution(KB)[t] \in not_cards[p]
                       \/ solution(KB)[t] \in cards[p]

C19_Witness ==
    /\ Idle
    /\ last.op = "deduce"
    /\ \E t \in CardTypes :
          /\ Cardinality(solution_possibilities[t]) = 1
          /\ Cardinality(pre.solution_possibilities[t]) > 1
          /\ \E p \in Players : might_have_card(pre, p, solution(KB)[t])

\* C20: deduce() returns at a fixed point: a call of deduce() made right
\* after deduce() has returned, with no recording call in between, returns
\* false and leaves the whole Knowledge Base as it was.
C20_DeduceFixedPoint ==
    (Idle /\ last.op = "deduce" /\ last.again) =>
        /\ last.ret = "False"
        /\ KB = pre

C20_Witness ==
    /\ Idle
    /\ last.op = "deduce"
    /\ last.again
    /\ constraints # <<>>
    /\ \E p \in Players : cards[p] # {}
    /\ \E t \in CardTypes : Cardinality(solution_possibilities[t]) = 1
    /\ KB \in deduce(KB)

\* C21: in every state reachable through the recording operations and
\* deduce(), no card is in the held set of two different players.
C21_OneHolderPerCard ==
    \A p \in Players : \A q \in Players :
        p # q => cards[p] \cap cards[q] = {}

====
